---- MODULE Spec2Model ----
(***************************************************************************)
(* Model of the Forge TypeScript SDK: the fluent RenderRequestBuilder, its *)
(* buildPayload() transformation, and the two network operations           *)
(* ForgeClient.health() and RenderRequestBuilder.send() with the timeout   *)
(* enforced by ForgeClient.doFetch().                                      *)
(***************************************************************************)
EXTENDS Integers, Sequences, FiniteSets, TLC

(***************************************************************************)
(* Bounds of the model.                                                    *)
(***************************************************************************)
NumCalls == 2
NumBuilders == 2
MaxSetterCalls == 2

Calls == 1..NumCalls
Builders == 1..NumBuilders

(***************************************************************************)
(* JavaScript values.  A value is a record of its type tag and of the text *)
(* that String(value) yields, which is what a template literal inserts.    *)
(***************************************************************************)
JsValue(t, v) == [t |-> t, v |-> v]
Str(s) == JsValue("string", s)
Num(n) == JsValue("number", n)
Bool(b) == JsValue("boolean", b)
Undefined == JsValue("undefined", "undefined")
Null == JsValue("object", "null")

\* JavaScript truthiness, as tested by `if (x)`.
Truthy(x) ==
  /\ x # Undefined
  /\ x # Null
  /\ x # Str("")
  /\ x # Num("0")
  /\ x # Num("NaN")
  /\ x # Bool("false")

\* The empty object literal {} and the literal { key: val }.
EmptyObject == [k \in {} |-> Undefined]
Prop(key, val) == [k \in {key} |-> val]

(***************************************************************************)
(* ForgeClient: the base URL.  The text of a URL is a sequence of pieces,  *)
(* each either the slash "/" or a run of characters without a slash.       *)
(***************************************************************************)
\* The string that a sequence of pieces spells.
RECURSIVE Text(_)
Text(pieces) == IF pieces = << >> THEN "" ELSE Head(pieces) \o Text(Tail(pieces))

\* A variant of StripTrailingSlashes that removes one slash at most.
StripOneTrailingSlash(url) ==
  IF url # << >> /\ url[Len(url)] = "/" THEN SubSeq(url, 1, Len(url) - 1) ELSE url

\* `baseUrl.replace(/\/+$/, "")`: the longest run of slashes at the end of
\* the string is removed.
RECURSIVE StripTrailingSlashes(_)
StripTrailingSlashes(url) ==
  IF url # << >> /\ url[Len(url)] = "/"
    THEN StripTrailingSlashes(SubSeq(url, 1, Len(url) - 1))
    ELSE url

\* `a ?? b`: b when a is null or undefined, a otherwise.
NullishCoalesce(a, b) == IF a \in {Undefined, Null} THEN b ELSE a

\* The request timeout of a client constructed without one, in milliseconds.
DefaultTimeout == Num("120000")

\* A variant of ForgeClient that takes the default for every falsy timeout.
ForgeClientFalsyIsDefault(baseUrl, options) ==
  [baseUrl |-> StripTrailingSlashes(baseUrl),
   timeout |-> IF Truthy(options.timeout) THEN options.timeout ELSE DefaultTimeout]

\* The constructor of ForgeClient; options.timeout is undefined when the
\* options or their timeout are omitted, as `options?.timeout` yields it.
ForgeClient(baseUrl, options) ==
  [baseUrl |-> StripTrailingSlashes(baseUrl),
   timeout |-> NullishCoalesce(options.timeout, DefaultTimeout)]

\* The base URLs the clients of the model are constructed from: client k
\* from BaseUrlArgs[k].
Origin == <<"http:", "/", "/", "localhost:3000">>
BaseUrlArgs == <<Origin \o <<"/">>, Origin, Origin \o <<"/", "/">>>>
Clients == DOMAIN BaseUrlArgs

\* The options the clients of the model are constructed with: client k with
\* ClientOptionsArgs[k]; the first one without a timeout.
ClientOptionsArgs ==
  <<[timeout |-> Undefined], [timeout |-> Num("0")], [timeout |-> Num("5000")]>>

\* The client on which call c runs health().
ClientOfCall(c) == ((c - 1) % Len(BaseUrlArgs)) + 1

(***************************************************************************)
(* RenderRequestBuilder: fields and setters.                               *)
(***************************************************************************)
LayoutFields ==
  {"_width", "_height", "_paper", "_orientation", "_margins", "_flow",
   "_density", "_background", "_timeout"}
QuantizeFields == {"_colors", "_palette", "_dither"}
PdfPlainFields ==
  {"_pdfTitle", "_pdfAuthor", "_pdfSubject", "_pdfKeywords", "_pdfCreator",
   "_pdfBookmarks", "_pdfPageNumbers", "_pdfStandard", "_pdfMode",
   "_pdfAccessibility", "_pdfLinearize", "_pdfLang"}
WatermarkFields ==
  {"_pdfWatermarkText", "_pdfWatermarkImage", "_pdfWatermarkOpacity",
   "_pdfWatermarkRotation", "_pdfWatermarkColor", "_pdfWatermarkFontSize",
   "_pdfWatermarkScale", "_pdfWatermarkLayer", "_pdfWatermarkPages"}
SignatureFields ==
  {"_pdfSignCertificate", "_pdfSignPassword", "_pdfSignName",
   "_pdfSignReason", "_pdfSignLocation", "_pdfSignTimestampUrl"}
EncryptionFields == {"_pdfUserPassword", "_pdfOwnerPassword", "_pdfPermissions"}

OptionalFields ==
  LayoutFields \cup QuantizeFields \cup PdfPlainFields \cup WatermarkFields
    \cup SignatureFields \cup EncryptionFields
ScalarFields == {"_format"} \cup OptionalFields
ArrayFields == {"_pdfEmbeddedFiles", "_pdfBarcodes"}
SourceFields == {"_html", "_url"}
BuilderFields == SourceFields \cup ScalarFields \cup ArrayFields

NumberFields ==
  {"_width", "_height", "_density", "_timeout", "_colors",
   "_pdfWatermarkOpacity", "_pdfWatermarkRotation", "_pdfWatermarkFontSize",
   "_pdfWatermarkScale"}
BooleanFields == {"_pdfBookmarks", "_pdfPageNumbers", "_pdfLinearize"}

\* The arguments the model passes to the setter of a field: the value that
\* is falsy in JavaScript where the type has one, and a second value for one
\* field of each group.
ArgValues(f) ==
  CASE f = "_format" -> {Str("pdf"), Str("png")}
    [] f = "_width" -> {Num("0"), Num("800")}
    [] f = "_dither" -> {Str("none"), Str("atkinson")}
    [] f = "_pdfTitle" -> {Str(""), Str("Report")}
    [] f = "_pdfBookmarks" -> {Bool("false"), Bool("true")}
    [] f = "_pdfWatermarkText" -> {Str(""), Str("DRAFT")}
    [] f = "_orientation" -> {Str("landscape")}
    [] f = "_flow" -> {Str("paginate")}
    [] f = "_palette" -> {JsValue("array", "#000000,#ffffff")}
    [] f = "_pdfStandard" -> {Str("pdf/a-2b")}
    [] f = "_pdfMode" -> {Str("raster")}
    [] f = "_pdfAccessibility" -> {Str("pdf/ua-1")}
    [] f = "_pdfWatermarkLayer" -> {Str("under")}
    [] f \in NumberFields -> {Num("0")}
    [] f \in BooleanFields -> {Bool("false")}
    [] OTHER -> {Str("")}

\* A builder is the record of the fields that have been assigned; a field
\* declared without initialiser and never assigned reads as undefined.
Field(s, f) == IF f \in DOMAIN s THEN s[f] ELSE Undefined

\* Field initialisers and constructor of RenderRequestBuilder.
NewBuilder(html, url) ==
  [f \in SourceFields \cup {"_format"} \cup ArrayFields |->
     CASE f = "_html" -> html
       [] f = "_url" -> url
       [] f = "_format" -> Str("pdf")
       [] OTHER -> << >>]

\* ForgeClient.renderHtml: `new RenderRequestBuilder(this, { html })`.
renderHtml(html) == NewBuilder(html, Undefined)

\* A variant of renderUrl that stores its argument as the HTML document.
renderUrlAsHtml(url) == NewBuilder(url, Undefined)

\* ForgeClient.renderUrl: `new RenderRequestBuilder(this, { url })`.
renderUrl(url) == NewBuilder(Undefined, url)

\* Every setter ends with `return this;`: called on builder b it returns b.
ReturnThis(b) == b

\* A variant of SetField that keeps the value a field already has.
SetFieldOnce(s, f, v) ==
  [k \in DOMAIN s \cup {f} |-> IF k \in DOMAIN s THEN s[k] ELSE v]

\* A scalar setter: `this._field = value; return this;`.
SetField(s, f, v) == [k \in DOMAIN s \cup {f} |-> IF k = f THEN v ELSE s[k]]

(***************************************************************************)
(* pdfAttach and pdfBarcode: the two accumulating setters.                 *)
(***************************************************************************)
AttachOptionKeys == {"mimeType", "description", "relationship"}
BarcodeOptionKeys ==
  {"x", "y", "width", "height", "anchor", "foreground", "background",
   "drawBackground", "pages"}

\* An options argument: the keys not listed in `given` are undefined, which
\* is also what `options?.key` yields when the argument itself is omitted.
Options(keys, given) ==
  [k \in keys |-> IF k \in DOMAIN given THEN given[k] ELSE Undefined]

AttachOptionArgs ==
  {Options(AttachOptionKeys, EmptyObject),
   Options(AttachOptionKeys, Prop("mimeType", Str("text/xml"))),
   Options(AttachOptionKeys,
           Prop("description", Str("")) @@ Prop("relationship", Str("data")))}

BarcodeOptionArgs ==
  {Options(BarcodeOptionKeys, EmptyObject),
   Options(BarcodeOptionKeys, Prop("x", Num("0")) @@ Prop("anchor", Str("top-left"))),
   Options(BarcodeOptionKeys,
           Prop("drawBackground", Bool("false")) @@ Prop("pages", Str("")))}

\* `if (cond) obj.key = val;`
PutIf(cond, key, val) == IF cond THEN Prop(key, val) ELSE EmptyObject

\* The entry pushed by pdfAttach(path, data, options).
AttachEntry(path, data, options) ==
  Prop("path", path) @@ Prop("data", data)
    @@ PutIf(Truthy(options["mimeType"]), "mime_type", options["mimeType"])
    @@ PutIf(Truthy(options["description"]), "description", options["description"])
    @@ PutIf(Truthy(options["relationship"]), "relationship", options["relationship"])

pdfAttach(s, path, data, options) ==
  [s EXCEPT !["_pdfEmbeddedFiles"] = Append(@, AttachEntry(path, data, options))]

\* A variant of BarcodeEntry that tests the options for truthiness, as
\* `if (opts?.x)` would.
BarcodeEntryTruthy(type, data, opts) ==
  Prop("type", type) @@ Prop("data", data)
    @@ PutIf(Truthy(opts["x"]), "x", opts["x"])
    @@ PutIf(Truthy(opts["y"]), "y", opts["y"])
    @@ PutIf(Truthy(opts["width"]), "width", opts["width"])
    @@ PutIf(Truthy(opts["height"]), "height", opts["height"])
    @@ PutIf(Truthy(opts["anchor"]), "anchor", opts["anchor"])
    @@ PutIf(Truthy(opts["foreground"]), "foreground", opts["foreground"])
    @@ PutIf(Truthy(opts["background"]), "background", opts["background"])
    @@ PutIf(Truthy(opts["drawBackground"]), "draw_background", opts["drawBackground"])
    @@ PutIf(Truthy(opts["pages"]), "pages", opts["pages"])

\* The entry pushed by pdfBarcode(type, data, opts).
BarcodeEntry(type, data, opts) ==
  Prop("type", type) @@ Prop("data", data)
    @@ PutIf(opts["x"] # Undefined, "x", opts["x"])
    @@ PutIf(opts["y"] # Undefined, "y", opts["y"])
    @@ PutIf(opts["width"] # Undefined, "width", opts["width"])
    @@ PutIf(opts["height"] # Undefined, "height", opts["height"])
    @@ PutIf(opts["anchor"] # Undefined, "anchor", opts["anchor"])
    @@ PutIf(opts["foreground"] # Undefined, "foreground", opts["foreground"])
    @@ PutIf(opts["background"] # Undefined, "background", opts["background"])
    @@ PutIf(opts["drawBackground"] # Undefined, "draw_background", opts["drawBackground"])
    @@ PutIf(opts["pages"] # Undefined, "pages", opts["pages"])

\* A variant of pdfBarcode that puts the new entry in front of the others.
pdfBarcodeInFront(s, type, data, opts) ==
  [s EXCEPT !["_pdfBarcodes"] = <<BarcodeEntry(type, data, opts)>> \o @]

pdfBarcode(s, type, data, opts) ==
  [s EXCEPT !["_pdfBarcodes"] = Append(@, BarcodeEntry(type, data, opts))]

(***************************************************************************)
(* buildPayload(): the wire object built from the builder's fields.        *)
(***************************************************************************)
\* A variant of PutField that writes null for a field that is not set.
PutFieldOrNull(s, key, f) ==
  Prop(key, IF Field(s, f) # Undefined THEN Field(s, f) ELSE Null)

\* `if (this._field !== undefined) obj.key = this._field;`
PutField(s, key, f) == PutIf(Field(s, f) # Undefined, key, Field(s, f))

\* A variant of AnySet that tests the fields for truthiness, as
\* `if (this._colors || this._palette || this._dither)` would.
AnySetTruthy(s, fields) == \E f \in fields : Truthy(Field(s, f))

AnySet(s, fields) == \E f \in fields : Field(s, f) # Undefined

\* A variant of QuantizeGroup that writes the dithering method only when a
\* number of colours is set.
QuantizeGroupDitherWithColors(s) ==
  PutField(s, "colors", "_colors")
    @@ PutField(s, "palette", "_palette")
    @@ PutIf(Field(s, "_colors") # Undefined /\ Field(s, "_dither") # Undefined,
             "dither", Field(s, "_dither"))

QuantizeGroup(s) ==
  PutField(s, "colors", "_colors")
    @@ PutField(s, "palette", "_palette")
    @@ PutField(s, "dither", "_dither")

hasWatermark(s) == AnySet(s, WatermarkFields)
hasSignature(s) == AnySet(s, SignatureFields)
hasEncryption(s) == AnySet(s, EncryptionFields)

\* A variant of WatermarkGroup in which a watermark text brings a default
\* opacity with it.
WatermarkGroupDefaultOpacity(s) ==
  PutField(s, "text", "_pdfWatermarkText")
    @@ PutField(s, "image_data", "_pdfWatermarkImage")
    @@ PutField(s, "opacity", "_pdfWatermarkOpacity")
    @@ PutIf(Field(s, "_pdfWatermarkText") # Undefined, "opacity", Num("1"))
    @@ PutField(s, "rotation", "_pdfWatermarkRotation")
    @@ PutField(s, "color", "_pdfWatermarkColor")
    @@ PutField(s, "font_size", "_pdfWatermarkFontSize")
    @@ PutField(s, "scale", "_pdfWatermarkScale")
    @@ PutField(s, "layer", "_pdfWatermarkLayer")
    @@ PutField(s, "pages", "_pdfWatermarkPages")

WatermarkGroup(s) ==
  PutField(s, "text", "_pdfWatermarkText")
    @@ PutField(s, "image_data", "_pdfWatermarkImage")
    @@ PutField(s, "opacity", "_pdfWatermarkOpacity")
    @@ PutField(s, "rotation", "_pdfWatermarkRotation")
    @@ PutField(s, "color", "_pdfWatermarkColor")
    @@ PutField(s, "font_size", "_pdfWatermarkFontSize")
    @@ PutField(s, "scale", "_pdfWatermarkScale")
    @@ PutField(s, "layer", "_pdfWatermarkLayer")
    @@ PutField(s, "pages", "_pdfWatermarkPages")

SignatureGroup(s) ==
  PutField(s, "certificate_data", "_pdfSignCertificate")
    @@ PutField(s, "password", "_pdfSignPassword")
    @@ PutField(s, "signer_name", "_pdfSignName")
    @@ PutField(s, "reason", "_pdfSignReason")
    @@ PutField(s, "location", "_pdfSignLocation")
    @@ PutField(s, "timestamp_url", "_pdfSignTimestampUrl")

EncryptionGroup(s) ==
  PutField(s, "user_password", "_pdfUserPassword")
    @@ PutField(s, "owner_password", "_pdfOwnerPassword")
    @@ PutField(s, "permissions", "_pdfPermissions")

\* A variant of hasPdf that overlooks the encryption fields.
hasPdfMissingEncryption(s) ==
  \/ AnySet(s, PdfPlainFields)
  \/ Len(s["_pdfEmbeddedFiles"]) > 0
  \/ Len(s["_pdfBarcodes"]) > 0
  \/ hasWatermark(s)
  \/ hasSignature(s)

hasPdf(s) ==
  \/ AnySet(s, PdfPlainFields)
  \/ Len(s["_pdfEmbeddedFiles"]) > 0
  \/ Len(s["_pdfBarcodes"]) > 0
  \/ hasWatermark(s)
  \/ hasSignature(s)
  \/ hasEncryption(s)

PdfGroup(s) ==
  PutField(s, "title", "_pdfTitle")
    @@ PutField(s, "author", "_pdfAuthor")
    @@ PutField(s, "subject", "_pdfSubject")
    @@ PutField(s, "keywords", "_pdfKeywords")
    @@ PutField(s, "creator", "_pdfCreator")
    @@ PutField(s, "bookmarks", "_pdfBookmarks")
    @@ PutField(s, "page_numbers", "_pdfPageNumbers")
    @@ PutField(s, "standard", "_pdfStandard")
    @@ PutIf(Len(s["_pdfEmbeddedFiles"]) > 0, "embedded_files", s["_pdfEmbeddedFiles"])
    @@ PutIf(hasWatermark(s), "watermark", WatermarkGroup(s))
    @@ PutIf(Len(s["_pdfBarcodes"]) > 0, "barcodes", s["_pdfBarcodes"])
    @@ PutField(s, "mode", "_pdfMode")
    @@ PutIf(hasSignature(s), "signature", SignatureGroup(s))
    @@ PutIf(hasEncryption(s), "encryption", EncryptionGroup(s))
    @@ PutField(s, "accessibility", "_pdfAccessibility")
    @@ PutField(s, "linearize", "_pdfLinearize")
    @@ PutField(s, "document_lang", "_pdfLang")

buildPayload(s) ==
  Prop("format", Field(s, "_format"))
    @@ PutField(s, "html", "_html")
    @@ PutField(s, "url", "_url")
    @@ PutField(s, "width", "_width")
    @@ PutField(s, "height", "_height")
    @@ PutField(s, "paper", "_paper")
    @@ PutField(s, "orientation", "_orientation")
    @@ PutField(s, "margins", "_margins")
    @@ PutField(s, "flow", "_flow")
    @@ PutField(s, "density", "_density")
    @@ PutField(s, "background", "_background")
    @@ PutField(s, "timeout", "_timeout")
    @@ PutIf(AnySet(s, QuantizeFields), "quantize", QuantizeGroup(s))
    @@ PutIf(hasPdf(s), "pdf", PdfGroup(s))

(***************************************************************************)
(* JSON.stringify(payload): every scalar becomes its JSON token, groups    *)
(* and arrays are serialized member by member.  The order of the keys in   *)
(* the text is not modelled.                                               *)
(***************************************************************************)
JsonToken(x) ==
  CASE x.t = "string" -> "\"" \o x.v \o "\""
    [] x.t = "array" -> "[" \o x.v \o "]"
    [] OTHER -> x.v

JsonFlat(o) == [k \in DOMAIN o |-> JsonToken(o[k])]
JsonArray(a) == [i \in DOMAIN a |-> JsonFlat(a[i])]

JsonPdf(p) ==
  [k \in DOMAIN p |->
     CASE k \in {"watermark", "signature", "encryption"} -> JsonFlat(p[k])
       [] k \in {"embedded_files", "barcodes"} -> JsonArray(p[k])
       [] OTHER -> JsonToken(p[k])]

JSONstringify(payload) ==
  [k \in DOMAIN payload |->
     CASE k = "quantize" -> JsonFlat(payload[k])
       [] k = "pdf" -> JsonPdf(payload[k])
       [] OTHER -> JsonToken(payload[k])]

(***************************************************************************)
(* The server's answers and the failures of the transport.                 *)
(***************************************************************************)

ErrorBoom == "{\"error\":\"boom\"}"
ErrorNumber == "{\"error\":42}"
NoErrorKey == "{}"
JsonNull == "null"
NotJson == "<html>Bad Gateway</html>"
PdfBytes == "%PDF-1.7"

\* The answers of the server in the model: <<status, body>>.
Responses ==
  {<<200, PdfBytes>>, <<200, ErrorBoom>>, <<201, PdfBytes>>,
   <<500, ErrorBoom>>, <<500, ErrorNumber>>, <<500, NoErrorKey>>,
   <<500, JsonNull>>, <<500, NotJson>>,
   <<300, NotJson>>, <<404, ErrorBoom>>, <<503, NotJson>>}

ConnectionRefused == "TypeError: fetch failed (ECONNREFUSED)"
DnsFailure == "TypeError: fetch failed (ENOTFOUND)"
TransportFailures == {ConnectionRefused, DnsFailure}
AbortError == "AbortError: This operation was aborted"
BodyReadFailure == "TypeError: terminated"

\* Response.ok of the fetch API, read by health() and send().
RespOk(status) == status >= 200 /\ status <= 299

\* JSON.parse on the body texts of the model.
JsonParse(text) ==
  CASE text = ErrorBoom -> [kind |-> "object", props |-> Prop("error", Str("boom"))]
    [] text = ErrorNumber -> [kind |-> "object", props |-> Prop("error", Num("42"))]
    [] text = NoErrorKey -> [kind |-> "object", props |-> EmptyObject]
    [] text = JsonNull -> [kind |-> "null", props |-> EmptyObject]
    [] OTHER -> [kind |-> "SyntaxError", props |-> EmptyObject]

(***************************************************************************)
(* The error classes and the values a call settles with.                   *)
(***************************************************************************)
Settlement(kind, name, status, message, cause, value) ==
  [kind |-> kind, name |-> name, status |-> status, message |-> message,
   cause |-> cause, value |-> value]

Pending == Settlement("pending", "", 0, "", "", "")
Returned(name, value) == Settlement("returned", name, 0, "", "", value)

\* class ForgeServerError: super(`server error (${status}): ${message}`).
ForgeServerError(status, message) ==
  Settlement("thrown", "ForgeServerError", status,
             "server error (" \o ToString(status) \o "): " \o message.v, "", "")

\* class ForgeConnectionError: super(`connection error: ${cause}`).
ForgeConnectionError(cause) ==
  Settlement("thrown", "ForgeConnectionError", 0,
             "connection error: " \o cause, cause, "")

\* An error that leaves the call as it was thrown by the platform.
Propagated(e) == Settlement("thrown", "TypeError", 0, e, "", "")

(***************************************************************************)
(* health() and send(): what each does with the result of its awaits.      *)
(***************************************************************************)
\* health(): `return resp.ok;`
HealthOnResponse(status) ==
  Returned("boolean", IF RespOk(status) THEN "true" ELSE "false")

\* A variant of HealthOnReject that lets the error through.
HealthOnRejectRethrowing(e) == Propagated(e)

\* health(): `catch { return false; }`
HealthOnReject(e) == Returned("boolean", "false")

\* A variant of SendOnReject that reports the failure without wrapping the
\* error it caught.
SendOnRejectLosingCause(e) == ForgeConnectionError("fetch failed")

\* send(): `catch (e) { throw new ForgeConnectionError(e); }`
SendOnReject(e) == ForgeConnectionError(e)

\* A variant of ResolveMessage that never reads the body.
ResolveMessageStatusOnly(status, text, delivered) ==
  Str("HTTP " \o ToString(status))

\* send(): the message of a non-success response, from
\* `message = ((await resp.json()) as ErrorResponse).error` and its catch.
\* delivered is FALSE when reading the body failed.
ResolveMessage(status, text, delivered) ==
  LET fallback == Str("HTTP " \o ToString(status))
      body == JsonParse(text)
  IN  IF ~delivered THEN fallback
      ELSE CASE body.kind = "SyntaxError" -> fallback
             [] body.kind = "null" -> fallback
             [] OTHER -> IF "error" \in DOMAIN body.props
                           THEN body.props["error"] ELSE Undefined

\* send(): `throw new ForgeServerError(resp.status, message);`
SendOnErrorBody(status, text, delivered) ==
  ForgeServerError(status, ResolveMessage(status, text, delivered))

\* send(): `return new Uint8Array(await resp.arrayBuffer());`
SendOnArrayBuffer(text) == Returned("Uint8Array", text)

\* send(): resp.arrayBuffer() rejects outside of any try block.
SendOnArrayBufferReject(e) == Propagated(e)

(***************************************************************************)
(* State.                                                                  *)
(*   builder[b]   the fields of builder b                                  *)
(*   setterCalls  number of setter calls made so far, on all builders      *)
(*   returned     the payloads returned by the buildPayload() calls made   *)
(*                on one builder since the last setter call                *)
(*   call[c]      the send() or health() call c                            *)
(*   history[b]   the calls the caller has made on builder b: the entry    *)
(*                point that created it, with its client and its argument, *)
(*                the arguments of the first and of the last call of each  *)
(*                scalar setter,                                           *)
(*                the options of the pdfAttach and pdfBarcode calls in     *)
(*                call order, and the builder the last setter returned     *)
(*   client[k]    the fields of client k                                   *)
(*   kept         the payload object the caller keeps from a               *)
(*                buildPayload() call while calling the builder again      *)
(***************************************************************************)
VARIABLES builder, setterCalls, returned, call, history, client, kept

vars == <<builder, setterCalls, returned, call, history, client, kept>>
builderVars == <<builder, setterCalls, returned, history, client, kept>>
networkVars == <<call, client, kept>>

NoRequest == [method |-> "", path |-> "", url |-> "", contentType |-> "",
              hasBody |-> FALSE, body |-> EmptyObject]

\* A variant of HealthRequest that probes the server with a HEAD request.
HealthRequestHead ==
  [method |-> "HEAD", path |-> "/health", url |-> "", contentType |-> "",
   hasBody |-> FALSE, body |-> EmptyObject]

\* health(): `this.doFetch("/health", { method: "GET" })`
HealthRequest ==
  [method |-> "GET", path |-> "/health", url |-> "", contentType |-> "",
   hasBody |-> FALSE, body |-> EmptyObject]

\* send(): `this.client.doFetch("/render", { method: "POST", headers, body })`
SendRequest(payload) ==
  [method |-> "POST", path |-> "/render", url |-> "",
   contentType |-> "application/json", hasBody |-> TRUE,
   body |-> JSONstringify(payload)]

\* A call that has not been made yet.
\*   pc         idle, fetching (awaiting fetch), json (awaiting resp.json()),
\*              arrayBuffer (awaiting resp.arrayBuffer()), settled
\*   timer      none, armed, fired, cleared
\*   timerDelay the delay passed to setTimeout, in milliseconds
\*   aborted    controller.signal.aborted
\*   elapsedAt  the pc at which the client timeout elapsed, or never
\*   requests   the HTTP requests issued by the call
\*   status, body   the response, once fetch has resolved
\*   failure    the error the platform raised in the call, if any
\*   setterCallsBefore   the number of setter calls made before the call
IdleCall ==
  [kind |-> "none", builder |-> 0, setterCallsBefore |-> 0, pc |-> "idle",
   timer |-> "none", timerDelay |-> Undefined,
   aborted |-> FALSE, elapsedAt |-> "never", requests |-> << >>,
   status |-> 0, body |-> "", failure |-> "", outcome |-> Pending]

\* The builder on which call c runs send().
BuilderOf(c) == ((c - 1) % NumBuilders) + 1

\* A call of an entry point of client k, and the builder it returns.
Entry(k, name, arg) == [client |-> k, name |-> name, arg |-> arg]
Construct(e) == IF e.name = "renderHtml" THEN renderHtml(e.arg) ELSE renderUrl(e.arg)

\* The entry point calls that create the builders whose setters are called:
\* one of each entry point; the empty document is a string too.
EntryArgs ==
  {Entry(1, "renderHtml", Str("")), Entry(1, "renderUrl", Str("https://example.com"))}

DefaultEntry(b) ==
  IF b % 2 = 1 THEN Entry(ClientOfCall(b), "renderHtml", Str("<h1>Hi</h1>"))
               ELSE Entry(ClientOfCall(b), "renderUrl", Str("https://example.com"))

\* Nothing has been called on a builder that an entry point just returned;
\* `returns` is the builder the last setter called on it returned.
NewHistory(e) ==
  [entry |-> e, first |-> EmptyObject, last |-> EmptyObject,
   attach |-> << >>, barcode |-> << >>, returns |-> 0]

\* The state in which every builder b was just created by the call entries[b].
\* The caller keeps no payload yet.
NothingKept == [b |-> 0, built |-> EmptyObject, shares |-> {}]

InitFrom(entries) ==
  /\ builder = [b \in Builders |-> Construct(entries[b])]
  /\ setterCalls = 0
  /\ returned = [b |-> 0, payloads |-> << >>]
  /\ call = [c \in Calls |-> IdleCall]
  /\ history = [b \in Builders |-> NewHistory(entries[b])]
  /\ client = [k \in Clients |-> ForgeClient(BaseUrlArgs[k], ClientOptionsArgs[k])]
  /\ kept = NothingKept

Init == InitFrom([b \in Builders |-> DefaultEntry(b)])

\* The client that created builder b: `this.client` of the builder.
ClientOfBuilder(b) == history[b].entry.client

(***************************************************************************)
(* ForgeClient.doFetch.                                                    *)
(***************************************************************************)
\* The target of the request: the template literal `${this.baseUrl}${path}`.
FetchUrl(cl, path) == Text(cl.baseUrl) \o path

\* `new AbortController(); setTimeout(...); fetch(url, {...init, signal})`
DoFetchStart(cl, cr, request) ==
  [cr EXCEPT !.pc = "fetching", !.timer = "armed", !.timerDelay = cl.timeout,
             !.aborted = FALSE,
             !.requests = Append(@, [request EXCEPT !.url = FetchUrl(cl, request.path)])]

\* A variant of DoFetchFinally that clears the timer after the await, so
\* only when fetch has resolved.
DoFetchClearOnSuccess(cr) ==
  [cr EXCEPT !.timer = IF @ = "armed" /\ cr.failure = "" THEN "cleared" ELSE @]

\* `finally { clearTimeout(timer); }`
DoFetchFinally(cr) ==
  [cr EXCEPT !.timer = IF @ = "armed" THEN "cleared" ELSE @]

\* The callback of the timer: `() => controller.abort()`.
TimerCallback(cr) == [cr EXCEPT !.timer = "fired", !.aborted = TRUE]

Settle(cr, outcome) == [cr EXCEPT !.pc = "settled", !.outcome = outcome]

(***************************************************************************)
(* Actions of the network part.                                            *)
(***************************************************************************)
\* The caller calls client.health().
Health(c) ==
  /\ call[c].pc = "idle"
  /\ call' = [call EXCEPT ![c] =
                DoFetchStart(client[ClientOfCall(c)],
                             [@ EXCEPT !.kind = "health"], HealthRequest)]
  /\ UNCHANGED builderVars

\* A variant of SendOn that hands the attachments and barcodes over to the
\* request and leaves the builder without them.
SendOnMovingArrays(c, b) ==
  /\ call[c].pc = "idle"
  /\ call' = [call EXCEPT ![c] =
                DoFetchStart(client[ClientOfBuilder(b)],
                             [@ EXCEPT !.kind = "send", !.builder = b,
                                       !.setterCallsBefore = setterCalls],
                             SendRequest(buildPayload(builder[b])))]
  /\ builder' = [builder EXCEPT ![b]["_pdfEmbeddedFiles"] = << >>,
                                ![b]["_pdfBarcodes"] = << >>]
  /\ UNCHANGED <<setterCalls, returned, history, client, kept>>

\* The caller calls send() on builder b: call c of the model.
SendOn(c, b) ==
  /\ call[c].pc = "idle"
  /\ call' = [call EXCEPT ![c] =
                DoFetchStart(client[ClientOfBuilder(b)],
                             [@ EXCEPT !.kind = "send", !.builder = b,
                                       !.setterCallsBefore = setterCalls],
                             SendRequest(buildPayload(builder[b])))]
  /\ UNCHANGED builderVars

\* The caller calls send() on builder b, the builder of call c.
Send(c, b) ==
  /\ b = BuilderOf(c)
  /\ SendOn(c, b)

\* A variant of AfterResponse in which send() tests `resp.status >= 400`
\* where the code tests `!resp.ok`.
AfterResponseFrom400(cr) ==
  IF cr.kind = "health" THEN Settle(cr, HealthOnResponse(cr.status))
  ELSE IF cr.status >= 400 THEN [cr EXCEPT !.pc = "json"]
  ELSE [cr EXCEPT !.pc = "arrayBuffer"]

\* What the call does once doFetch has returned the response.
AfterResponse(cr) ==
  IF cr.kind = "health" THEN Settle(cr, HealthOnResponse(cr.status))
  ELSE IF ~RespOk(cr.status) THEN [cr EXCEPT !.pc = "json"]
  ELSE [cr EXCEPT !.pc = "arrayBuffer"]

\* A variant of AfterReject that tries the request once more.
AfterRejectRetrying(cr, e) ==
  IF Len(cr.requests) < 2
    THEN [cr EXCEPT !.pc = "fetching", !.timer = "armed", !.aborted = FALSE,
                    !.requests = Append(@, @[1])]
  ELSE IF cr.kind = "health" THEN Settle(cr, HealthOnReject(e))
  ELSE Settle(cr, SendOnReject(e))

\* What the call does once doFetch has thrown e.
AfterReject(cr, e) ==
  IF cr.kind = "health" THEN Settle(cr, HealthOnReject(e))
  ELSE Settle(cr, SendOnReject(e))

\* The status line and headers of the response arrive: fetch resolves.
FetchResolve(c, r) ==
  /\ call[c].pc = "fetching"
  /\ ~call[c].aborted
  /\ call' = [call EXCEPT ![c] =
                AfterResponse(DoFetchFinally(
                  [@ EXCEPT !.status = r[1], !.body = r[2]]))]
  /\ UNCHANGED builderVars

\* The transport fails (DNS failure, refused connection): fetch rejects.
FetchReject(c, e) ==
  /\ call[c].pc = "fetching"
  /\ ~call[c].aborted
  /\ call' = [call EXCEPT ![c] =
                AfterReject(DoFetchFinally([@ EXCEPT !.failure = e]), e)]
  /\ UNCHANGED builderVars

\* A variant of Elapse in which the calls of a client share one
\* AbortController: the timer of one call aborts every request in flight.
ElapseAbortingAll(c) ==
  /\ call[c].pc \in {"fetching", "json", "arrayBuffer"}
  /\ call[c].elapsedAt = "never"
  /\ call' = [d \in Calls |->
                IF d = c
                  THEN LET cr == [call[c] EXCEPT !.elapsedAt = call[c].pc]
                       IN  IF cr.timer = "armed" THEN TimerCallback(cr) ELSE cr
                ELSE IF call[c].timer = "armed" /\ call[d].pc = "fetching"
                  THEN [call[d] EXCEPT !.aborted = TRUE]
                ELSE call[d]]
  /\ UNCHANGED builderVars

\* The client timeout elapses: the callback runs if the timer is still armed.
Elapse(c) ==
  /\ call[c].pc \in {"fetching", "json", "arrayBuffer"}
  /\ call[c].elapsedAt = "never"
  /\ call' = [call EXCEPT ![c] =
                LET cr == [call[c] EXCEPT !.elapsedAt = call[c].pc]
                IN  IF cr.timer = "armed" THEN TimerCallback(cr) ELSE cr]
  /\ UNCHANGED builderVars

\* The aborted fetch rejects with an AbortError.
AbortReject(c) ==
  /\ call[c].pc = "fetching"
  /\ call[c].aborted
  /\ call' = [call EXCEPT ![c] =
                AfterReject(DoFetchFinally([@ EXCEPT !.failure = AbortError]),
                            AbortError)]
  /\ UNCHANGED builderVars

\* The body of the response has arrived in full.
BodyDelivered(c) ==
  /\ call[c].pc \in {"json", "arrayBuffer"}
  /\ call' = [call EXCEPT ![c] =
                IF @.pc = "json"
                  THEN Settle(@, SendOnErrorBody(@.status, @.body, TRUE))
                  ELSE Settle(@, SendOnArrayBuffer(@.body))]
  /\ UNCHANGED builderVars

\* The connection breaks while the body is being read.
BodyFailed(c) ==
  /\ call[c].pc \in {"json", "arrayBuffer"}
  /\ call' = [call EXCEPT ![c] =
                LET cr == [@ EXCEPT !.failure = BodyReadFailure]
                IN  IF cr.pc = "json"
                      THEN Settle(cr, SendOnErrorBody(cr.status, cr.body, FALSE))
                      ELSE Settle(cr, SendOnArrayBufferReject(BodyReadFailure))]
  /\ UNCHANGED builderVars

Next ==
  \E c \in Calls :
    \/ Health(c)
    \/ \E b \in Builders : Send(c, b)
    \/ \E r \in Responses : FetchResolve(c, r)
    \/ \E e \in TransportFailures : FetchReject(c, e)
    \/ Elapse(c)
    \/ AbortReject(c)
    \/ BodyDelivered(c)
    \/ BodyFailed(c)

Spec == Init /\ [][Next]_vars

\* The timer fires when its time comes and the platform delivers the abort;
\* nothing obliges the server to answer or to complete a body.
LiveSpec ==
  Init /\ [][Next]_vars
    /\ \A c \in Calls : WF_vars(Elapse(c)) /\ WF_vars(AbortReject(c))

(***************************************************************************)
(* Actions of the builder part.                                            *)
(***************************************************************************)
NothingReturned == [b |-> 0, payloads |-> << >>]

\* A variant of Setter in which choosing a paper size discards the explicit
\* width and height.
SetterPaperResetsSize(b, f, v) ==
  /\ setterCalls < MaxSetterCalls
  /\ builder' = [builder EXCEPT ![b] =
                   [k \in (DOMAIN @ \cup {f})
                            \ (IF f = "_paper" THEN {"_width", "_height"} ELSE {}) |->
                      IF k = f THEN v ELSE @[k]]]
  /\ setterCalls' = setterCalls + 1
  /\ returned' = NothingReturned
  /\ history' = [history EXCEPT ![b].first = @ @@ Prop(f, v),
                                 ![b].last = Prop(f, v) @@ @,
                                 ![b].returns = ReturnThis(b)]
  /\ UNCHANGED networkVars

\* The caller calls the scalar setter of field f with argument v.
Setter(b, f, v) ==
  /\ setterCalls < MaxSetterCalls
  /\ builder' = [builder EXCEPT ![b] = SetField(@, f, v)]
  /\ setterCalls' = setterCalls + 1
  /\ returned' = NothingReturned
  /\ history' = [history EXCEPT ![b].first = @ @@ Prop(f, v),
                                 ![b].last = Prop(f, v) @@ @,
                                 ![b].returns = ReturnThis(b)]
  /\ UNCHANGED networkVars

\* A variant of PdfAttach in which the requests in flight are serialized
\* from the builder when they are transmitted, and so carry the new entry.
PdfAttachReachingRequests(b, options) ==
  /\ setterCalls < MaxSetterCalls
  /\ builder' = [builder EXCEPT ![b] =
                   pdfAttach(@, Str("invoice.xml"), Str("PHhtbC8+"), options)]
  /\ setterCalls' = setterCalls + 1
  /\ returned' = NothingReturned
  /\ history' = [history EXCEPT ![b].attach = Append(@, options),
                                 ![b].returns = ReturnThis(b)]
  /\ call' = [c \in Calls |->
                IF call[c].kind = "send" /\ call[c].builder = b /\ call[c].pc = "fetching"
                  THEN [call[c] EXCEPT !.requests[1].body =
                          JSONstringify(buildPayload(builder'[b]))]
                  ELSE call[c]]
  /\ UNCHANGED <<client, kept>>

PdfAttach(b, options) ==
  /\ setterCalls < MaxSetterCalls
  /\ builder' = [builder EXCEPT ![b] =
                   pdfAttach(@, Str("invoice.xml"), Str("PHhtbC8+"), options)]
  /\ setterCalls' = setterCalls + 1
  /\ returned' = NothingReturned
  /\ history' = [history EXCEPT ![b].attach = Append(@, options),
                                 ![b].returns = ReturnThis(b)]
  /\ UNCHANGED networkVars

\* The payloads returned so far, with one more; the last two are kept.
Remember(b, payload) ==
  IF returned.b # b THEN [b |-> b, payloads |-> <<payload>>]
  ELSE [b |-> b,
        payloads |-> IF Len(returned.payloads) < 2
                       THEN Append(returned.payloads, payload)
                       ELSE <<returned.payloads[2], payload>>]

\* A variant of PdfBarcode in which the builders push on one array that
\* they all share.
PdfBarcodeOnSharedArray(b, opts) ==
  /\ setterCalls < MaxSetterCalls
  /\ builder' = [x \in Builders |->
                   pdfBarcode(builder[x], Str("qr"), Str("https://example.com"), opts)]
  /\ setterCalls' = setterCalls + 1
  /\ returned' = NothingReturned
  /\ history' = [history EXCEPT ![b].barcode = Append(@, opts),
                                 ![b].returns = ReturnThis(b)]
  /\ UNCHANGED networkVars

\* The caller calls pdfBarcode(type, data, opts) on builder b.
PdfBarcode(b, opts) ==
  /\ setterCalls < MaxSetterCalls
  /\ builder' = [builder EXCEPT ![b] =
                   pdfBarcode(@, Str("qr"), Str("https://example.com"), opts)]
  /\ setterCalls' = setterCalls + 1
  /\ returned' = NothingReturned
  /\ history' = [history EXCEPT ![b].barcode = Append(@, opts),
                                 ![b].returns = ReturnThis(b)]
  /\ UNCHANGED networkVars

\* A variant of BuildPayload that hands its arrays over to the payload and
\* starts new ones in the builder.
BuildPayloadMovingArrays(b) ==
  /\ returned' = Remember(b, buildPayload(builder[b]))
  /\ builder' = [builder EXCEPT ![b]["_pdfEmbeddedFiles"] = << >>,
                                ![b]["_pdfBarcodes"] = << >>]
  /\ UNCHANGED <<setterCalls, call, history, client, kept>>

\* The caller calls buildPayload() on builder b.
BuildPayload(b) ==
  /\ returned' = Remember(b, buildPayload(builder[b]))
  /\ UNCHANGED <<builder, setterCalls, call, history, client, kept>>

\* The builder's array behind each array key of the pdf group.
ArrayField == [embedded_files |-> "_pdfEmbeddedFiles", barcodes |-> "_pdfBarcodes"]

\* buildPayload() assigns the builder's own arrays to the payload,
\* `p.embedded_files = this._pdfEmbeddedFiles` and
\* `p.barcodes = this._pdfBarcodes`: the keys of the returned object that
\* refer to an array of builder fields s. Every other value of the payload
\* is a primitive or an object that buildPayload() creates.
SharedArrays(s) == {k \in DOMAIN ArrayField : Len(s[ArrayField[k]]) > 0}

\* The caller calls buildPayload() on builder b and keeps the object:
\* `built` is its value when it is returned, `shares` the keys under which
\* it holds arrays of the builder.
KeepPayload(b) ==
  /\ kept' = [b |-> b, built |-> buildPayload(builder[b]),
              shares |-> SharedArrays(builder[b])]
  /\ UNCHANGED <<builder, setterCalls, returned, call, history, client>>

\* What the caller reads in the kept object now: an array that the object
\* shares with the builder is read as the builder has it now.
ReadKept ==
  IF kept.shares = {} THEN kept.built
  ELSE [kept.built EXCEPT !["pdf"] =
          [k \in DOMAIN @ |->
             IF k \in kept.shares THEN builder[kept.b][ArrayField[k]] ELSE @[k]]]

\* The builders whose methods the caller calls in BuilderSpec; each builder
\* has its own fields, so the calls on one are studied on their own.
CalledBuilders == {1}

NextBuilder ==
  \E b \in CalledBuilders :
    \/ \E f \in ScalarFields : \E v \in ArgValues(f) : Setter(b, f, v)
    \/ \E options \in AttachOptionArgs : PdfAttach(b, options)
    \/ \E opts \in BarcodeOptionArgs : PdfBarcode(b, opts)
    \/ BuildPayload(b)

\* The called builders come from any entry point call of the model.
InitBuilder ==
  \E e \in EntryArgs :
    InitFrom([b \in Builders |-> IF b \in CalledBuilders THEN e ELSE DefaultEntry(b)])

BuilderSpec == InitBuilder /\ [][NextBuilder]_vars

(***************************************************************************)
(* Two builders in use at once: the caller calls some of the setters,      *)
(* buildPayload() and send() on either builder, in any order.  The second  *)
(* builder comes from the client of the first or from another client.      *)
(***************************************************************************)
SharedBuilders == {1, 2}
SharedFields == {"_dither", "_pdfSignName"}

InitShared ==
  \E k \in SharedBuilders :
    InitFrom([b \in Builders |->
                IF b = 1 THEN DefaultEntry(b)
                         ELSE [DefaultEntry(b) EXCEPT !.client = k]])

NextShared ==
  \E b \in SharedBuilders :
    \/ \E f \in SharedFields : \E v \in ArgValues(f) : Setter(b, f, v)
    \/ PdfAttach(b, Options(AttachOptionKeys, EmptyObject))
    \/ PdfBarcode(b, Options(BarcodeOptionKeys, EmptyObject))
    \/ BuildPayload(b)
    \/ \E c \in Calls : Send(c, b)

SharedSpec == InitShared /\ [][NextShared]_vars

(***************************************************************************)
(* One builder used for two requests: the caller calls send() on the first *)
(* builder twice, the calls end in any way, and some of the setters are    *)
(* called before and between them.                                         *)
(***************************************************************************)
ReuseCalls == {1, 2}
ReuseFields == {"_format", "_pdfWatermarkText"}
ReuseResponses == {<<200, PdfBytes>>, <<500, ErrorBoom>>}

NextReuse ==
  \/ \E f \in ReuseFields : \E v \in ArgValues(f) : Setter(1, f, v)
  \/ PdfBarcode(1, Options(BarcodeOptionKeys, EmptyObject))
  \/ PdfAttach(1, Options(AttachOptionKeys, EmptyObject))
  \/ \E c \in ReuseCalls :
       \/ Health(c)
       \/ SendOn(c, 1)
       \/ \E r \in ReuseResponses : FetchResolve(c, r)
       \/ FetchReject(c, ConnectionRefused)
       \/ Elapse(c)
       \/ AbortReject(c)
       \/ BodyDelivered(c)
       \/ BodyFailed(c)

ReuseSpec == Init /\ [][NextReuse]_vars

(***************************************************************************)
(* A kept payload: the caller builds the payload of a builder, keeps the  *)
(* object, and goes on calling the builder.                                *)
(***************************************************************************)
SnapshotFields == {"_format", "_pdfTitle"}

NextSnapshot ==
  \/ \E f \in SnapshotFields : \E v \in ArgValues(f) : Setter(1, f, v)
  \/ \E options \in AttachOptionArgs : PdfAttach(1, options)
  \/ \E opts \in BarcodeOptionArgs : PdfBarcode(1, opts)
  \/ KeepPayload(1)

SnapshotSpec == Init /\ [][NextSnapshot]_vars

(***************************************************************************)
(* The scalar setters on their own: the caller calls any scalar setter,    *)
(* and pdfAttach and pdfBarcode without options, on one builder.           *)
(***************************************************************************)
NextSetter ==
  \/ \E f \in ScalarFields : \E v \in ArgValues(f) : Setter(1, f, v)
  \/ PdfAttach(1, Options(AttachOptionKeys, EmptyObject))
  \/ PdfBarcode(1, Options(BarcodeOptionKeys, EmptyObject))

SetterSpec == Init /\ [][NextSetter]_vars

(***************************************************************************)
(* The two timeouts: the caller sets the page load timeout of a builder    *)
(* with timeout(seconds) and calls send() and health() on clients that     *)
(* were constructed with and without a request timeout.                    *)
(***************************************************************************)
TimeoutCalls == {1, 2}
PageLoadTimeouts == {Num("0"), Num("60")}

NextTimeout ==
  \E c \in TimeoutCalls :
    \/ \E v \in PageLoadTimeouts : Setter(BuilderOf(c), "_timeout", v)
    \/ Health(c)
    \/ Send(c, BuilderOf(c))
    \/ FetchReject(c, ConnectionRefused)
    \/ Elapse(c)
    \/ AbortReject(c)

TimeoutSpec == Init /\ [][NextTimeout]_vars

(***************************************************************************)
(* Properties.                                                             *)
(***************************************************************************)
SettledSend(c) == call[c].kind = "send" /\ call[c].pc = "settled"
SettledHealth(c) == call[c].kind = "health" /\ call[c].pc = "settled"
Success(status) == status \in 200..299
GotResponse(c) == call[c].status # 0
TransportFailed(c) == call[c].failure \in TransportFailures \cup {AbortError}
BodyArrived(c) == GotResponse(c) /\ call[c].failure = ""
Threw(c, name) == call[c].outcome.kind = "thrown" /\ call[c].outcome.name = name

\* The text of a ForgeServerError built from status and resolved message m.
ServerErrorText(status, m) == "server error (" \o ToString(status) \o "): " \o m
FallbackText(status) == "HTTP " \o ToString(status)

\* The body is a JSON object whose error member is a string.
HasErrorString(text) ==
  LET body == JsonParse(text)
  IN  /\ body.kind = "object"
      /\ "error" \in DOMAIN body.props
      /\ body.props["error"].t = "string"
ErrorString(text) == JsonParse(text).props["error"].v

\* C1: when the HTTP call of send() fails at the transport level (DNS
\* failure, refused connection, abort by the client timeout), send() throws
\* a ForgeConnectionError whose cause is that failure, never a
\* ForgeServerError.
C1_TransportFailureIsConnectionError ==
  \A c \in Calls :
    SettledSend(c) /\ TransportFailed(c) =>
      /\ Threw(c, "ForgeConnectionError")
      /\ call[c].outcome.cause = call[c].failure

C1_Witness ==
  \E c \in Calls :
    /\ SettledSend(c)
    /\ call[c].failure = AbortError
    /\ call[c].elapsedAt = "fetching"

\* C2 as stated: for a non-success status S and the body {"error": m},
\* send() throws a server failure whose status is S and whose message is m.
C2_MessageIsBodyError ==
  \A c \in Calls :
    SettledSend(c) /\ BodyArrived(c) /\ ~Success(call[c].status)
      /\ HasErrorString(call[c].body) =>
        /\ Threw(c, "ForgeServerError")
        /\ call[c].outcome.status = call[c].status
        /\ call[c].outcome.message = ErrorString(call[c].body)

\* C2 as amended: for a non-success status S and the body {"error": m},
\* send() throws a ForgeServerError whose status is S and whose message is
\* the text "server error (S): m".
C2_MessageEmbedsBodyError ==
  \A c \in Calls :
    SettledSend(c) /\ BodyArrived(c) /\ ~Success(call[c].status)
      /\ HasErrorString(call[c].body) =>
        /\ Threw(c, "ForgeServerError")
        /\ call[c].outcome.status = call[c].status
        /\ call[c].outcome.message =
             ServerErrorText(call[c].status, ErrorString(call[c].body))

C2_Witness ==
  \E c \in Calls :
    /\ SettledSend(c)
    /\ BodyArrived(c)
    /\ call[c].status = 500
    /\ call[c].body = ErrorBoom
    /\ Threw(c, "ForgeServerError")

\* C3: for a non-success status S whose body is not a structured error
\* payload with a string error member (not JSON, or JSON without an error
\* string), the message resolved for the server failure is "HTTP S"; the
\* resolved message is never anything but the body's error string or that
\* fallback.
C3_FallbackMessage ==
  \A c \in Calls :
    SettledSend(c) /\ GotResponse(c) /\ ~Success(call[c].status) =>
      LET S == call[c].status
          text == call[c].outcome.message
      IN  IF BodyArrived(c) /\ HasErrorString(call[c].body)
            THEN text \in {ServerErrorText(S, ErrorString(call[c].body)),
                           ServerErrorText(S, FallbackText(S))}
            ELSE text = ServerErrorText(S, FallbackText(S))

\* C4: every send() call settles with bytes, a ForgeConnectionError or a
\* ForgeServerError; no failure, also not one met while the body of a
\* success response is read, leaves send() as an untyped error.
C4_OnlyTypedFailures ==
  \A c \in Calls :
    SettledSend(c) =>
      \/ call[c].outcome.kind = "returned" /\ call[c].outcome.name = "Uint8Array"
      \/ Threw(c, "ForgeConnectionError")
      \/ Threw(c, "ForgeServerError")

\* C5: for a success (2xx) status send() returns exactly the bytes of the
\* response body, and it returns bytes for success statuses only.
C5_SuccessReturnsBodyBytes ==
  \A c \in Calls :
    SettledSend(c) =>
      /\ call[c].outcome.kind = "returned" =>
           /\ Success(call[c].status)
           /\ call[c].outcome.name = "Uint8Array"
           /\ call[c].outcome.value = call[c].body
      /\ BodyArrived(c) /\ Success(call[c].status) =>
           /\ call[c].outcome.kind = "returned"
           /\ call[c].outcome.value = call[c].body

C5_Witness ==
  \E c \in Calls :
    /\ SettledSend(c)
    /\ call[c].status = 200
    /\ call[c].body = PdfBytes
    /\ call[c].outcome.kind = "returned"
    /\ call[c].outcome.value = PdfBytes

\* C6: health() never raises; it returns true exactly when the server
\* answered with a success (2xx) status and false for every transport
\* failure, timeout and non-success status.
C6_HealthIsBoolean ==
  \A c \in Calls :
    /\ call[c].kind = "health" => call[c].pc \in {"fetching", "settled"}
    /\ SettledHealth(c) =>
         /\ call[c].outcome.kind = "returned"
         /\ call[c].outcome.name = "boolean"
         /\ call[c].outcome.value \in {"true", "false"}
         /\ call[c].outcome.value = "true" <=>
              (GotResponse(c) /\ Success(call[c].status))

\* A refused connection and a 503 answer, both reported as false.
C6_Witness ==
  \E c, d \in Calls :
    /\ SettledHealth(c) /\ call[c].failure = ConnectionRefused
    /\ SettledHealth(d) /\ call[d].status = 503
    /\ call[c].outcome = call[d].outcome
    /\ call[c].outcome.value = "false"

\* C7: if the client timeout elapses while the request of a send() or
\* health() call is in flight, the request is aborted and the caller sees a
\* ForgeConnectionError from send() and false from health().
C7_TimeoutAbortsRequest ==
  \A c \in Calls :
    call[c].pc = "settled"
      /\ call[c].elapsedAt \in {"fetching", "json", "arrayBuffer"} =>
        /\ call[c].aborted
        /\ call[c].kind = "send" => Threw(c, "ForgeConnectionError")
        /\ call[c].kind = "health" =>
             call[c].outcome = Returned("boolean", "false")

\* C8: when the timer is allowed to fire, every send() call eventually
\* settles, also when the server sends the status and headers and never
\* completes the body.
C8_SendEventuallySettles ==
  \A c \in Calls :
    (call[c].kind = "send" /\ call[c].pc # "idle") ~> (call[c].pc = "settled")

\* C9: each send() call and each health() call issues exactly one HTTP
\* request, whatever its outcome.
C9_OneRequestPerCall ==
  \A c \in Calls :
    IF call[c].pc = "idle" THEN Len(call[c].requests) = 0
    ELSE Len(call[c].requests) = 1

C9_Witness ==
  \E c, d \in Calls :
    /\ c # d
    /\ call[c].pc = "settled" /\ call[c].failure = AbortError
    /\ call[d].pc = "settled" /\ call[d].failure = DnsFailure
    /\ Len(call[c].requests) = 1
    /\ Len(call[d].requests) = 1

\* C10: buildPayload() leaves the builder as it was, and two calls with no
\* setter call between them return equal payloads.
C10_BuildPayloadPure ==
  /\ [](Len(returned.payloads) = 2 =>
          returned.payloads[1] = returned.payloads[2])
  /\ [][setterCalls' = setterCalls => builder' = builder]_vars

C10_Witness ==
  /\ setterCalls >= 2
  /\ Len(returned.payloads) = 2
  /\ "pdf" \in DOMAIN returned.payloads[2]
  /\ "barcodes" \in DOMAIN returned.payloads[2]["pdf"]
  /\ "quantize" \in DOMAIN returned.payloads[2]

(***************************************************************************)
(* Properties of the payload.                                              *)
(***************************************************************************)
\* The payload that buildPayload() returns for builder b in this state.
Payload(b) == buildPayload(builder[b])

\* The payload key of the source an entry point takes, and the other key.
SourceKey(e) == IF e.name = "renderHtml" THEN "html" ELSE "url"
OtherSourceKey(e) == IF e.name = "renderHtml" THEN "url" ELSE "html"

\* C11: whatever setters were called since, the payload of a builder that
\* renderHtml(h) created has html = h and no url key, and the payload of a
\* builder that renderUrl(u) created has url = u and no html key.
C11_SourceIsEntryArgument ==
  \A b \in CalledBuilders :
    LET e == history[b].entry
        p == Payload(b)
    IN  /\ SourceKey(e) \in DOMAIN p
        /\ p[SourceKey(e)] = e.arg
        /\ OtherSourceKey(e) \notin DOMAIN p

C11_Witness ==
  /\ setterCalls >= 2
  /\ returned.b # 0
  /\ history[returned.b].entry.name = "renderUrl"
  /\ DOMAIN history[returned.b].last # {}
  /\ Len(history[returned.b].barcode) > 0
  /\ returned.payloads[1]["url"] = Str("https://example.com")

\* No setter, pdfAttach or pdfBarcode call has been made on builder b.
Untouched(b) ==
  /\ DOMAIN history[b].last = {}
  /\ Len(history[b].attach) = 0
  /\ Len(history[b].barcode) = 0

\* C12: the payload of a builder on which no setter was called has exactly
\* two keys: the source key with the entry point's argument, and format
\* with the value "pdf".
C12_MinimalPayload ==
  \A b \in Builders :
    Untouched(b) =>
      Payload(b) = Prop(SourceKey(history[b].entry), history[b].entry.arg)
                     @@ Prop("format", Str("pdf"))

C12_Witness ==
  /\ setterCalls = 0
  /\ returned.b # 0
  /\ Untouched(returned.b)
  /\ Len(returned.payloads) = 1
  /\ DOMAIN returned.payloads[1] = {"html", "format"}

\* The wire schema: the group of the payload that carries a field of the
\* builder, as the path of keys from the top of the payload, and its key
\* in that group.
WireGroup(f) ==
  CASE f \in QuantizeFields -> <<"quantize">>
    [] f \in PdfPlainFields -> <<"pdf">>
    [] f \in WatermarkFields -> <<"pdf", "watermark">>
    [] f \in SignatureFields -> <<"pdf", "signature">>
    [] f \in EncryptionFields -> <<"pdf", "encryption">>
    [] OTHER -> << >>

WireKey(f) ==
  CASE f = "_format" -> "format"
    [] f = "_width" -> "width"
    [] f = "_height" -> "height"
    [] f = "_paper" -> "paper"
    [] f = "_orientation" -> "orientation"
    [] f = "_margins" -> "margins"
    [] f = "_flow" -> "flow"
    [] f = "_density" -> "density"
    [] f = "_background" -> "background"
    [] f = "_timeout" -> "timeout"
    [] f = "_colors" -> "colors"
    [] f = "_palette" -> "palette"
    [] f = "_dither" -> "dither"
    [] f = "_pdfTitle" -> "title"
    [] f = "_pdfAuthor" -> "author"
    [] f = "_pdfSubject" -> "subject"
    [] f = "_pdfKeywords" -> "keywords"
    [] f = "_pdfCreator" -> "creator"
    [] f = "_pdfBookmarks" -> "bookmarks"
    [] f = "_pdfPageNumbers" -> "page_numbers"
    [] f = "_pdfStandard" -> "standard"
    [] f = "_pdfMode" -> "mode"
    [] f = "_pdfAccessibility" -> "accessibility"
    [] f = "_pdfLinearize" -> "linearize"
    [] f = "_pdfLang" -> "document_lang"
    [] f = "_pdfWatermarkText" -> "text"
    [] f = "_pdfWatermarkImage" -> "image_data"
    [] f = "_pdfWatermarkOpacity" -> "opacity"
    [] f = "_pdfWatermarkRotation" -> "rotation"
    [] f = "_pdfWatermarkColor" -> "color"
    [] f = "_pdfWatermarkFontSize" -> "font_size"
    [] f = "_pdfWatermarkScale" -> "scale"
    [] f = "_pdfWatermarkLayer" -> "layer"
    [] f = "_pdfWatermarkPages" -> "pages"
    [] f = "_pdfSignCertificate" -> "certificate_data"
    [] f = "_pdfSignPassword" -> "password"
    [] f = "_pdfSignName" -> "signer_name"
    [] f = "_pdfSignReason" -> "reason"
    [] f = "_pdfSignLocation" -> "location"
    [] f = "_pdfSignTimestampUrl" -> "timestamp_url"
    [] f = "_pdfUserPassword" -> "user_password"
    [] f = "_pdfOwnerPassword" -> "owner_password"
    [] f = "_pdfPermissions" -> "permissions"

\* The group at the end of a path of keys in payload p, or "absent".
RECURSIVE GroupAt(_, _)
GroupAt(p, path) ==
  IF path = << >> THEN [present |-> TRUE, members |-> p]
  ELSE IF Head(path) \in DOMAIN p THEN GroupAt(p[Head(path)], Tail(path))
  ELSE [present |-> FALSE, members |-> EmptyObject]

\* The value that payload p carries for field f; undefined when the key or
\* its group is absent.
Carried(p, f) ==
  LET g == GroupAt(p, WireGroup(f))
  IN  IF g.present /\ WireKey(f) \in DOMAIN g.members
        THEN g.members[WireKey(f)] ELSE Undefined

\* C13: the payload's format is "pdf" when format() was never called, and
\* for every scalar setter that was called, once or several times, the
\* payload carries the argument of its last call.
C13_LastCallWins ==
  \A b \in CalledBuilders :
    LET p == Payload(b)
    IN  /\ "_format" \notin DOMAIN history[b].last => p["format"] = Str("pdf")
        /\ \A f \in DOMAIN history[b].last : Carried(p, f) = history[b].last[f]

C13_Witness ==
  /\ returned.b # 0
  /\ LET h == history[returned.b]
     IN  /\ DOMAIN h.last = {"_pdfWatermarkText"}
         /\ h.first["_pdfWatermarkText"] = Str("DRAFT")
         /\ h.last["_pdfWatermarkText"] = Str("")
         /\ returned.payloads[1]["format"] = Str("pdf")
         /\ returned.payloads[1]["pdf"]["watermark"]["text"] = Str("")

\* The scalar setters that have been called on builder b, by their field,
\* and the wire keys of those among them that belong to a set of fields.
Called(b) == DOMAIN history[b].last
CalledKeys(b, fields) == {WireKey(f) : f \in Called(b) \cap fields}

\* C14: the quantize group is in the payload exactly when colors(),
\* palette() or dither() was called, and its keys are then exactly the keys
\* of those of the three that were called.
C14_QuantizeGroup ==
  \A b \in CalledBuilders :
    LET p == Payload(b)
    IN  /\ "quantize" \in DOMAIN p <=> Called(b) \cap QuantizeFields # {}
        /\ "quantize" \in DOMAIN p =>
             DOMAIN p["quantize"] = CalledKeys(b, QuantizeFields)

C14_Witness ==
  /\ returned.b # 0
  /\ Called(returned.b) = {"_dither", "_format"}
  /\ returned.payloads[1]["quantize"] = Prop("dither", Str("atkinson"))

\* A member of the pdf group has been set on builder b.
PdfMemberSet(b) ==
  \/ Called(b) \cap (PdfPlainFields \cup WatermarkFields \cup SignatureFields
                       \cup EncryptionFields) # {}
  \/ Len(history[b].attach) > 0
  \/ Len(history[b].barcode) > 0

\* Group `key` is in object p exactly when one of the setters of `fields`
\* was called on builder b, and it is never the empty object.
PresentIffCalled(b, p, key, fields) ==
  /\ key \in DOMAIN p <=> Called(b) \cap fields # {}
  /\ key \in DOMAIN p => p[key] # EmptyObject

\* C15: the pdf group is in the payload exactly when a pdf member was set
\* (a plain pdf setter, a watermark, signature or encryption setter was
\* called, or an attachment or a barcode was added); inside it the
\* watermark, signature and encryption groups are each present exactly when
\* one of their own setters was called; no group is the empty object.
C15_PdfGroups ==
  \A b \in CalledBuilders :
    LET p == Payload(b)
    IN  /\ "pdf" \in DOMAIN p <=> PdfMemberSet(b)
        /\ "pdf" \notin DOMAIN p =>
             Called(b) \cap (WatermarkFields \cup SignatureFields
                               \cup EncryptionFields) = {}
        /\ "pdf" \in DOMAIN p =>
             /\ p["pdf"] # EmptyObject
             /\ PresentIffCalled(b, p["pdf"], "watermark", WatermarkFields)
             /\ PresentIffCalled(b, p["pdf"], "signature", SignatureFields)
             /\ PresentIffCalled(b, p["pdf"], "encryption", EncryptionFields)
        /\ "quantize" \in DOMAIN p => p["quantize"] # EmptyObject

C15_Witness ==
  /\ returned.b # 0
  /\ Called(returned.b) = {"_pdfUserPassword", "_pdfSignName"}
  /\ DOMAIN returned.payloads[1]["pdf"] = {"signature", "encryption"}
  /\ returned.payloads[1]["pdf"]["encryption"] = Prop("user_password", Str(""))

\* The array under `key` of the pdf group of payload p; empty when the key
\* or the pdf group is absent.
PdfArray(p, key) ==
  IF "pdf" \in DOMAIN p /\ key \in DOMAIN p["pdf"] THEN p["pdf"][key] ELSE << >>

PdfArrayPresent(p, key) == "pdf" \in DOMAIN p /\ key \in DOMAIN p["pdf"]

\* C16: after n pdfBarcode calls on a builder, whatever other setters were
\* called between them, pdf.barcodes has n entries and its i-th entry is
\* the one of the i-th call; the same holds of pdfAttach and
\* pdf.embedded_files; the key is absent when n = 0.
C16_ArraysAccumulate ==
  \A b \in CalledBuilders :
    LET p == Payload(b)
    IN  /\ PdfArrayPresent(p, "barcodes") <=> Len(history[b].barcode) > 0
        /\ Len(PdfArray(p, "barcodes")) = Len(history[b].barcode)
        /\ \A i \in 1..Len(history[b].barcode) :
             PdfArray(p, "barcodes")[i] =
               BarcodeEntry(Str("qr"), Str("https://example.com"),
                            history[b].barcode[i])
        /\ PdfArrayPresent(p, "embedded_files") <=> Len(history[b].attach) > 0
        /\ Len(PdfArray(p, "embedded_files")) = Len(history[b].attach)
        /\ \A i \in 1..Len(history[b].attach) :
             PdfArray(p, "embedded_files")[i] =
               AttachEntry(Str("invoice.xml"), Str("PHhtbC8+"),
                           history[b].attach[i])

C16_Witness ==
  /\ returned.b # 0
  /\ Len(history[returned.b].barcode) = 2
  /\ Len(returned.payloads[1]["pdf"]["barcodes"]) = 2
  /\ "anchor" \in DOMAIN returned.payloads[1]["pdf"]["barcodes"][1]
  /\ "pages" \in DOMAIN returned.payloads[1]["pdf"]["barcodes"][2]
  /\ "embedded_files" \notin DOMAIN returned.payloads[1]["pdf"]

\* The builder obtained by calling the scalar setters of `calls` (a
\* function from fields to arguments) on s, one after the other in one
\* fixed order of the fields.
RECURSIVE Replay(_, _)
Replay(s, calls) ==
  IF DOMAIN calls = {} THEN s
  ELSE LET f == CHOOSE g \in DOMAIN calls : TRUE
       IN  Replay(SetField(s, f, calls[f]),
                  [g \in DOMAIN calls \ {f} |-> calls[g]])

RECURSIVE ReplayAttach(_, _)
ReplayAttach(s, options) ==
  IF options = << >> THEN s
  ELSE ReplayAttach(pdfAttach(s, Str("invoice.xml"), Str("PHhtbC8+"), Head(options)),
                    Tail(options))

RECURSIVE ReplayBarcode(_, _)
ReplayBarcode(s, opts) ==
  IF opts = << >> THEN s
  ELSE ReplayBarcode(pdfBarcode(s, Str("qr"), Str("https://example.com"), Head(opts)),
                     Tail(opts))

\* The calls made on builder b, made again on a new builder in one fixed
\* order: the scalar setters first, each with its last argument, then the
\* attachments, then the barcodes.
Replayed(b) ==
  ReplayBarcode(
    ReplayAttach(Replay(Construct(history[b].entry), history[b].last),
                 history[b].attach),
    history[b].barcode)

\* C17: every setter returns the builder it was called on, and the payload
\* does not depend on the order of the calls: in whatever order the setters
\* were called on a builder, its payload equals the payload obtained by
\* making the same calls in one fixed order.
C17_AnyOrder ==
  \A b \in CalledBuilders :
    /\ history[b].returns \in {0, b}
    /\ Untouched(b) <=> history[b].returns = 0
    /\ Payload(b) = buildPayload(Replayed(b))

C17_Witness ==
  /\ returned.b # 0
  /\ history[returned.b].returns = returned.b
  /\ Called(returned.b) = {"_paper", "_width"}
  /\ {"paper", "width"} \subseteq DOMAIN returned.payloads[1]
  /\ returned.payloads[1] = buildPayload(Replayed(returned.b))

\* The requests that calls c and d have issued go to the same target.
SameTarget(c, d) == call[c].requests[1].url = call[d].requests[1].url

\* C18: the slashes at the end of the base URL are removed at construction,
\* so clients built from base URLs that differ only in these slashes send
\* their requests to the same targets: send() to the base followed by
\* "/render" and health() to the base followed by "/health".
C18_TrailingSlashesStripped ==
  /\ \A k \in Clients : client[k].baseUrl = Origin
  /\ \A c \in Calls :
       call[c].pc # "idle" =>
         call[c].requests[1].url =
           IF call[c].kind = "send" THEN "http://localhost:3000/render"
                                    ELSE "http://localhost:3000/health"
  /\ \A c, d \in Calls :
       call[c].pc # "idle" /\ call[d].pc # "idle" /\ call[c].kind = call[d].kind
         => SameTarget(c, d)

C18_Witness ==
  \E c, d \in Calls :
    /\ call[c].kind = "send" /\ call[d].kind = "send"
    /\ BaseUrlArgs[ClientOfBuilder(call[c].builder)] = Origin \o <<"/">>
    /\ BaseUrlArgs[ClientOfBuilder(call[d].builder)] = Origin
    /\ call[c].requests[1].url = "http://localhost:3000/render"
    /\ SameTarget(c, d)

\* C19: builders share no state: a step that is not a setter call on
\* builder b (a setter, pdfAttach, pdfBarcode, buildPayload or send call
\* on another builder, created by the same client or by another) leaves
\* the payload of b as it was.
C19_BuildersIndependent ==
  [][\A b \in SharedBuilders :
       history'[b] = history[b] => buildPayload(builder'[b]) = Payload(b)]_vars

C19_Witness ==
  /\ history[1].entry.client = history[2].entry.client
  /\ Len(history[1].barcode) > 0
  /\ "_dither" \in Called(1)
  /\ \E c \in Calls : call[c].kind = "send" /\ call[c].builder = 1
  /\ Untouched(2)
  /\ returned.b = 2
  /\ DOMAIN returned.payloads[1] = {"url", "format"}

\* Calls c and d are send() calls on the same builder with no setter call
\* between them.
Resent(c, d) ==
  /\ c # d
  /\ call[c].kind = "send" /\ call[d].kind = "send"
  /\ call[c].builder = call[d].builder
  /\ call[c].setterCallsBefore = call[d].setterCallsBefore

\* C20: no step of a send() call, from the request to any of its outcomes,
\* changes a field of a builder, and two send() calls on one builder with
\* no setter call between them transmit the same request body.
C20_SendKeepsBuilder ==
  /\ [][call' # call => builder' = builder]_vars
  /\ [](\A c, d \in Calls :
          Resent(c, d) => call[c].requests[1].body = call[d].requests[1].body)

C20_Witness ==
  \E c, d \in Calls :
    /\ Resent(c, d)
    /\ call[c].setterCallsBefore >= 2
    /\ Threw(c, "ForgeServerError")
    /\ call[d].pc = "settled" /\ call[d].outcome.kind = "returned"
    /\ "pdf" \in DOMAIN call[d].requests[1].body
    /\ "barcodes" \in DOMAIN call[d].requests[1].body["pdf"]
    /\ call[c].requests[1].body = call[d].requests[1].body

(***************************************************************************)
(* Properties of the requests.                                             *)
(***************************************************************************)
\* The client on which call c runs: the client of its builder for send().
ClientOf(c) ==
  IF call[c].kind = "send" THEN ClientOfBuilder(call[c].builder) ELSE ClientOfCall(c)

\* The request timeout client k was configured with.
Configured(k) ==
  IF ClientOptionsArgs[k].timeout = Undefined THEN Num("120000")
  ELSE ClientOptionsArgs[k].timeout

\* C21: the timer of every send() and health() call is armed with the
\* request timeout of its client, which is the timeout option given at
\* construction, 0 included, and 120000 ms when none was given; the
\* timeout(seconds) setter of the builder only sets the payload's timeout.
C21_ConfiguredTimeout ==
  /\ \A k \in Clients : client[k].timeout = Configured(k)
  /\ \A c \in Calls :
       call[c].pc # "idle" =>
         /\ call[c].timerDelay = Configured(ClientOf(c))
         /\ call[c].kind = "send" /\ "_timeout" \in Called(call[c].builder)
              /\ call[c].setterCallsBefore = setterCalls
              => call[c].requests[1].body["timeout"]
                   = history[call[c].builder].last["_timeout"].v

C21_Witness ==
  \E c, d \in Calls :
    /\ call[c].kind = "send" /\ call[d].kind = "send"
    /\ call[c].timerDelay = Num("120000")
    /\ "timeout" \in DOMAIN call[c].requests[1].body
    /\ call[c].requests[1].body["timeout"] = "60"
    /\ call[d].timerDelay = Num("0")
    /\ "timeout" \in DOMAIN call[d].requests[1].body
    /\ call[d].requests[1].body["timeout"] = "60"

\* Call c has issued a request.
Issued(c) == call[c].pc # "idle"

\* C22: health() issues one GET to the base URL followed by "/health",
\* without a body; send() issues one POST to the base URL followed by
\* "/render", with Content-Type application/json and the JSON text of the
\* payload that buildPayload() returns when send() is called; no call
\* issues any other request.
C22_RequestsIssued ==
  /\ [](\A c \in Calls :
          Issued(c) =>
            /\ Len(call[c].requests) = 1
            /\ call[c].kind \in {"health", "send"}
            /\ call[c].kind = "health" =>
                 /\ call[c].requests[1].method = "GET"
                 /\ call[c].requests[1].url = "http://localhost:3000/health"
                 /\ ~call[c].requests[1].hasBody
                 /\ call[c].requests[1].contentType = ""
            /\ call[c].kind = "send" =>
                 /\ call[c].requests[1].method = "POST"
                 /\ call[c].requests[1].url = "http://localhost:3000/render"
                 /\ call[c].requests[1].hasBody
                 /\ call[c].requests[1].contentType = "application/json")
  /\ [][\A c \in Calls :
          ~Issued(c) /\ call'[c].kind = "send" =>
            call'[c].requests[1].body =
              JSONstringify(Payload(call'[c].builder))]_vars

C22_Witness ==
  \E c, d \in Calls :
    /\ call[c].kind = "health" /\ call[c].requests[1].method = "GET"
    /\ call[d].kind = "send" /\ call[d].requests[1].method = "POST"
    /\ DOMAIN call[d].requests[1].body = {"url", "format", "timeout"}
    /\ call[d].requests[1].body["timeout"] = "0"

\* doFetch has returned a response or thrown in call c.
DoFetchDone(c) == call[c].pc \in {"json", "arrayBuffer", "settled"}

\* C23: once doFetch has returned a response or thrown, by a transport
\* failure or by the abort, the timer it armed is not armed any more, and
\* it does not fire afterwards.
C23_TimerDisarmed ==
  /\ [](\A c \in Calls : DoFetchDone(c) => call[c].timer \in {"cleared", "fired"})
  /\ [][\A c \in Calls :
          DoFetchDone(c) => call'[c].timer = call[c].timer
                              /\ call'[c].aborted = call[c].aborted]_vars

C23_Witness ==
  \E c, d \in Calls :
    /\ call[c].pc = "settled" /\ call[c].failure = ConnectionRefused
    /\ call[c].timer = "cleared" /\ call[c].elapsedAt = "never"
    /\ call[d].pc = "arrayBuffer" /\ call[d].timer = "cleared"
    /\ call[d].elapsedAt = "arrayBuffer" /\ ~call[d].aborted

\* C24: the request of a send() call is fixed when send() is called: no
\* later step, and so no setter, pdfAttach or pdfBarcode call made on the
\* builder while the request is in flight, changes the request.
C24_BodyFixedAtSend ==
  [][\A c \in Calls : Issued(c) => call'[c].requests = call[c].requests]_vars

C24_Witness ==
  \E c \in Calls :
    /\ call[c].kind = "send" /\ call[c].pc = "fetching"
    /\ call[c].setterCallsBefore = 0
    /\ Len(history[call[c].builder].attach) > 0
    /\ "_format" \in Called(call[c].builder)
    /\ DOMAIN call[c].requests[1].body = {"html", "format"}
    /\ call[c].requests[1].body # JSONstringify(Payload(call[c].builder))

\* C25: calls that run at the same time on one client do not touch each
\* other: every step, the timeout or the failure of a call included,
\* changes the timer, the cancellation and the outcome of that call only.
C25_CallsIsolated ==
  [][\A c, d \in Calls :
       c # d /\ call'[c] # call[c] => call'[d] = call[d]]_vars

C25_Witness ==
  \E c, d \in Calls :
    /\ c # d
    /\ call[c].kind = "send" /\ call[d].kind = "health"
    /\ ClientOf(c) = ClientOf(d)
    /\ call[c].pc = "settled" /\ call[c].failure = AbortError
    /\ call[c].elapsedAt = "fetching" /\ call[c].timer = "fired"
    /\ call[d].pc = "fetching" /\ call[d].timer = "armed" /\ ~call[d].aborted

\* C26: a payload returned by buildPayload() is a snapshot: whatever is
\* called on the builder afterwards, the object reads as it did when it was
\* returned, barcodes and embedded_files included.
C26_PayloadIsSnapshot ==
  kept.b # 0 => ReadKept = kept.built

\* The key of the emitted entry for each option of pdfAttach and pdfBarcode.
OptionKey ==
  [mimeType |-> "mime_type", description |-> "description",
   relationship |-> "relationship", x |-> "x", y |-> "y", width |-> "width",
   height |-> "height", anchor |-> "anchor", foreground |-> "foreground",
   background |-> "background", drawBackground |-> "draw_background",
   pages |-> "pages"]

\* The options a call was given.
Provided(options) == {k \in DOMAIN options : options[k] # Undefined}

\* The entry has the required keys and, of the optional keys, those of the
\* provided options and no other, each with the value that was given.
EntryOfCall(entry, required, options) ==
  /\ DOMAIN entry = DOMAIN required \cup {OptionKey[k] : k \in Provided(options)}
  /\ \A k \in DOMAIN required : entry[k] = required[k]
  /\ \A k \in Provided(options) : entry[OptionKey[k]] = options[k]

\* C27: the embedded-file entry of every pdfAttach call has path and data,
\* and has mime_type, description and relationship each if and only if the
\* option was provided, whatever its value, the empty string included.
C27_AttachEntry ==
  \A b \in CalledBuilders :
    LET files == PdfArray(Payload(b), "embedded_files")
    IN  /\ Len(files) = Len(history[b].attach)
        /\ \A i \in 1..Len(files) :
             EntryOfCall(files[i],
                         Prop("path", Str("invoice.xml")) @@ Prop("data", Str("PHhtbC8+")),
                         history[b].attach[i])

\* C28: the barcode entry of every pdfBarcode call has type and data, and
\* has each optional key if and only if the option was provided, the values
\* 0, false and the empty string included; without options the entry has
\* the two keys type and data and no other.
C28_BarcodeEntry ==
  \A b \in CalledBuilders :
    LET codes == PdfArray(Payload(b), "barcodes")
    IN  /\ Len(codes) = Len(history[b].barcode)
        /\ \A i \in 1..Len(codes) :
             /\ EntryOfCall(codes[i],
                            Prop("type", Str("qr")) @@ Prop("data", Str("https://example.com")),
                            history[b].barcode[i])
             /\ Provided(history[b].barcode[i]) = {} =>
                  DOMAIN codes[i] = {"type", "data"}

C28_Witness ==
  \E b \in CalledBuilders :
    LET codes == PdfArray(Payload(b), "barcodes")
    IN  /\ Len(codes) = 2
        /\ Provided(history[b].barcode[1]) = {"x", "anchor"}
        /\ codes[1]["x"] = Num("0")
        /\ Provided(history[b].barcode[2]) = {"drawBackground", "pages"}
        /\ codes[2]["draw_background"] = Bool("false")
        /\ codes[2]["pages"] = Str("")

\* C29: a field counts as set once its setter was called, whatever the
\* value: for every scalar setter whose last argument is false, 0 or the
\* empty string, the payload has the group that encloses the key, and in it
\* the key with that value.
C29_FalsyValuesAreSet ==
  \A b \in CalledBuilders :
    LET p == Payload(b)
    IN  \A f \in Called(b) :
          ~Truthy(history[b].last[f]) =>
            LET g == GroupAt(p, WireGroup(f))
            IN  /\ g.present
                /\ WireKey(f) \in DOMAIN g.members
                /\ g.members[WireKey(f)] = history[b].last[f]

C29_Witness ==
  /\ returned.b # 0
  /\ LET h == history[returned.b]
     IN  /\ DOMAIN h.last = {"_pdfLinearize", "_width"}
         /\ h.last["_pdfLinearize"] = Bool("false")
         /\ h.last["_width"] = Num("0")
         /\ returned.payloads[1]["width"] = Num("0")
         /\ returned.payloads[1]["pdf"] = Prop("linearize", Bool("false"))

\* Payload p with one key assigned in the group at the end of a path of
\* keys; the groups on the path are created where p has none.
RECURSIVE Assigned(_, _, _, _)
Assigned(p, path, key, val) ==
  IF path = << >> THEN [k \in DOMAIN p \cup {key} |-> IF k = key THEN val ELSE p[k]]
  ELSE [k \in DOMAIN p \cup {Head(path)} |->
          IF k = Head(path)
            THEN Assigned(IF k \in DOMAIN p THEN p[k] ELSE EmptyObject,
                          Tail(path), key, val)
            ELSE p[k]]

\* The scalar setter that a step calls on builder b with an argument other
\* than the one of its last call, by its field: the empty set when the
\* step calls none.
SetterCalled(b) ==
  {f \in DOMAIN history'[b].last :
     f \notin DOMAIN history[b].last \/ history'[b].last[f] # history[b].last[f]}

\* C30: a scalar setter changes its own field only: the payload built after
\* a setter call is the payload built before it with the key of that setter
\* assigned, in its group, which is created when it was absent; the source,
\* the two arrays, every other key and every other group are the same.
C30_SetterChangesOwnKeyOnly ==
  [][\A b \in CalledBuilders :
       (/\ history'[b].attach = history[b].attach
        /\ history'[b].barcode = history[b].barcode) =>
         /\ Cardinality(SetterCalled(b)) <= 1
         /\ SetterCalled(b) = {} =>
              buildPayload(builder'[b]) = buildPayload(builder[b])
         /\ \A f \in SetterCalled(b) :
              buildPayload(builder'[b]) =
                Assigned(buildPayload(builder[b]), WireGroup(f), WireKey(f),
                         history'[b].last[f])]_vars

C30_Witness ==
  \E b \in CalledBuilders :
    LET p == Payload(b)
    IN  /\ setterCalls = 2
        /\ Called(b) = {"_pdfTitle", "_dither"}
        /\ DOMAIN p \ {"html", "url"} = {"format", "pdf", "quantize"}
        /\ p["pdf"] = Prop("title", Str(""))
        /\ p["quantize"] = Prop("dither", Str("atkinson"))

====
